---- MODULE Spec2Model ----
(***************************************************************************)
(* Model of src/src/workflow/cli.py, the PlatePals workflow launcher:      *)
(* module import (environment lookups), argument parsing, and main(),      *)
(* which for each selected flag builds a pipeline graph, compiles it to a  *)
(* manifest, constructs a PipelineJob and calls job.run().                 *)
(***************************************************************************)
EXTENDS Integers, Sequences, FiniteSets, TLC

VARIABLES
    env,        \* names of the environment variables that are set
    looked,     \* names read from os.environ so far (module level, lines 18-24)
    idx,        \* position in the module-level lookups
    pc,         \* control point of the process
    exitcode,   \* -1 while running, 0 normal exit, 1 uncaught exception
    args,       \* argparse.Namespace: flag -> BOOLEAN
    mode,       \* index of the branch of main being executed
    files,      \* manifest files this process has written: set of <<path, graph>>
    job_id,     \* local variable job_id of main
    jobs,       \* PipelineJob objects constructed, in order, with their state
    uuids,      \* values returned by generate_uuid, in call order
    log,        \* steps performed by main, in order
    u_len,      \* generate_uuid harness: requested length
    u_rnd,      \* generate_uuid harness: random indices drawn
    u_out,      \* generate_uuid harness: returned string (sequence of characters)
    u_pc        \* generate_uuid harness: "idle", "call", "done"

launcherVars == <<env, looked, idx, pc, exitcode, args, mode, files, job_id, jobs, uuids, log>>
uuidVars == <<u_len, u_rnd, u_out, u_pc>>
vars == <<env, looked, idx, pc, exitcode, args, mode, files, job_id, jobs, uuids, log,
          u_len, u_rnd, u_out, u_pc>>

----------------------------------------------------------------------------
(* Bounds of the model *)

\* seeds of the random streams offered to generate_uuid inside main
MaxSeed == 2
\* largest length requested from generate_uuid in the harness
MaxLen == 2
\* most negative length requested from generate_uuid in the harness
MaxNeg == 1

----------------------------------------------------------------------------
(* Environment and module-level configuration, lines 18-28 *)

\* variant: the GCP_REGION subscript is missing
EnvLookups_no_region ==
    <<"GCP_PROJECT", "GCS_BUCKET_NAME", "GCS_SERVICE_ACCOUNT", "GCS_PACKAGE_URI">>

\* os.environ[...] subscripts in execution order
EnvLookups ==
    <<"GCP_PROJECT", "GCS_BUCKET_NAME", "GCS_SERVICE_ACCOUNT", "GCS_PACKAGE_URI", "GCP_REGION">>

\* variables a process environment may hold: those the module reads and one it never reads
EnvUniverse ==
    {"GCP_PROJECT", "GCS_BUCKET_NAME", "GCS_SERVICE_ACCOUNT", "GCS_PACKAGE_URI", "GCP_REGION",
     "GOOGLE_APPLICATION_CREDENTIALS"}

\* the value of a set environment variable, kept symbolic
Getenv(name) == "$" \o name

GCP_PROJECT == Getenv("GCP_PROJECT")
GCS_BUCKET_NAME == Getenv("GCS_BUCKET_NAME")
BUCKET_URI == "gs://" \o GCS_BUCKET_NAME
PIPELINE_ROOT == BUCKET_URI \o "/pipeline_root/root"
GCS_SERVICE_ACCOUNT == Getenv("GCS_SERVICE_ACCOUNT")
GCS_PACKAGE_URI == Getenv("GCS_PACKAGE_URI")
GCP_REGION == Getenv("GCP_REGION")
DATA_PROCESSOR_IMAGE == "amelialwx/preprocess-image"

----------------------------------------------------------------------------
(* generate_uuid, lines 31-41 *)

\* string.ascii_lowercase + string.digits
Alphabet ==
    <<"a","b","c","d","e","f","g","h","i","j","k","l","m",
      "n","o","p","q","r","s","t","u","v","w","x","y","z",
      "0","1","2","3","4","5","6","7","8","9">>

\* default of the parameter length
DefaultLength == 8

\* random.choices(population, k=k): k draws population[floor(random() * n)];
\* rnd[i] is floor(random() * n) of the i-th draw; no draw happens when k <= 0
choices(population, k, rnd) == [i \in 1..k |-> population[rnd[i] + 1]]

\* variant: one draw too few
generate_uuid_short(length, rnd) == choices(Alphabet, length - 1, rnd)

generate_uuid(length, rnd) == choices(Alphabet, length, rnd)

\* "".join(chars)
RECURSIVE JoinStr(_)
JoinStr(chars) == IF chars = <<>> THEN "" ELSE Head(chars) \o JoinStr(Tail(chars))

\* random index streams offered to a call that draws k times
RandStreams(k) ==
    { [i \in 1..k |-> (7 * s + 5 * i) % Len(Alphabet)] : s \in 0..MaxSeed }

----------------------------------------------------------------------------
(* Pipeline graphs: stages in declaration order and "must complete before" edges *)

NewGraph == [tasks |-> <<>>, edges |-> {}]

\* calling a component inside a pipeline function registers a task
AddTask(g, component, arguments) ==
    [g EXCEPT !.tasks = Append(@, [component |-> component,
                                    display_name |-> component,
                                    arguments |-> arguments])]

\* task.set_display_name(name) on the task registered last
set_display_name(g, name) ==
    [g EXCEPT !.tasks[Len(g.tasks)].display_name = name]

\* task.after(dep) on the task registered last; dep is the index of an earlier task
after(g, dep) ==
    [g EXCEPT !.edges = @ \cup {<<dep, Len(g.tasks)>>}]

\* container component data_processor of the data-processor branch, lines 58-68
data_processor_standalone ==
    [image |-> DATA_PROCESSOR_IMAGE, command |-> <<>>, args |-> <<"cli.py">>]

\* container component data_processor of the pipeline branch, lines 159-169
data_processor_full ==
    [image |-> DATA_PROCESSOR_IMAGE, command |-> <<>>,
     args |-> <<"cli.py", "--bucket " \o GCS_BUCKET_NAME>>]

data_processor_pipeline ==
    AddTask(NewGraph, "data_processor", data_processor_standalone)

\* variant: the standalone training stage takes the full pipeline's epoch count
model_training_pipeline_epochs1 ==
    AddTask(NewGraph, "model_training",
            [project |-> GCP_PROJECT, location |-> GCP_REGION,
             staging_bucket |-> GCS_PACKAGE_URI, bucket_name |-> GCS_BUCKET_NAME,
             epochs |-> 1])

model_training_pipeline ==
    AddTask(NewGraph, "model_training",
            [project |-> GCP_PROJECT, location |-> GCP_REGION,
             staging_bucket |-> GCS_PACKAGE_URI, bucket_name |-> GCS_BUCKET_NAME,
             epochs |-> 3])

model_deploy_pipeline ==
    AddTask(NewGraph, "model_deploy", [bucket_name |-> GCS_BUCKET_NAME])

\* variant: the deploy stage is not declared after the training stage
ml_pipeline_no_deploy_edge ==
    LET g1 == set_display_name(
                  AddTask(NewGraph, "data_processor", data_processor_full),
                  "Data Processor")
        g2 == after(set_display_name(
                  AddTask(g1, "model_training",
                          [project |-> GCP_PROJECT, location |-> GCP_REGION,
                           staging_bucket |-> GCS_PACKAGE_URI,
                           bucket_name |-> GCS_BUCKET_NAME,
                           epochs |-> 1, batch_size |-> 32,
                           model_name |-> "EfficientNetV2B0", train_base |-> FALSE]),
                  "Model Training"), 1)
    IN  set_display_name(
            AddTask(g2, "model_deploy", [bucket_name |-> GCS_BUCKET_NAME]),
            "Model Deploy")

ml_pipeline ==
    LET data_processor_task == 1
        g1 == set_display_name(
                  AddTask(NewGraph, "data_processor", data_processor_full),
                  "Data Processor")
        model_training_task == 2
        g2 == after(set_display_name(
                  AddTask(g1, "model_training",
                          [project |-> GCP_PROJECT, location |-> GCP_REGION,
                           staging_bucket |-> GCS_PACKAGE_URI,
                           bucket_name |-> GCS_BUCKET_NAME,
                           epochs |-> 1, batch_size |-> 32,
                           model_name |-> "EfficientNetV2B0", train_base |-> FALSE]),
                  "Model Training"), data_processor_task)
    IN  after(set_display_name(
                  AddTask(g2, "model_deploy", [bucket_name |-> GCS_BUCKET_NAME]),
                  "Model Deploy"), model_training_task)

----------------------------------------------------------------------------
(* main, lines 44-218 *)

Flags == {"data_processor", "model_training", "model_deploy", "pipeline"}

\* variant: the deploy branch precedes the training branch
ModeOrder_swapped == <<"data_processor", "model_deploy", "model_training", "pipeline">>

\* the order of the four if-statements of main
ModeOrder == <<"data_processor", "model_training", "model_deploy", "pipeline">>

\* the pipeline function each branch defines and compiles
PipelineOf(m) ==
    CASE m = "data_processor" -> data_processor_pipeline
      [] m = "model_training" -> model_training_pipeline
      [] m = "model_deploy"   -> model_deploy_pipeline
      [] m = "pipeline"       -> ml_pipeline

\* variant: every branch writes the same manifest file
PackagePath_shared(m) == "pipeline.yaml"

\* package_path given to compile() in each branch
PackagePath(m) ==
    CASE m = "data_processor" -> "data_processor.yaml"
      [] m = "model_training" -> "model_training.yaml"
      [] m = "model_deploy"   -> "model_deploy.yaml"
      [] m = "pipeline"       -> "pipeline.yaml"

\* the string literal DISPLAY_NAME starts with in each branch
DisplayPrefix(m) ==
    CASE m = "data_processor" -> "platepals-data-processor-"
      [] m = "model_training" -> "platepals-model-training-"
      [] m = "model_deploy"   -> "platepals-app-model-deploy-"
      [] m = "pipeline"       -> "platepals-app-pipeline-"

\* variant: the deploy branch leaves caching on
PipelineJob_cached(m, id) ==
    [display_name   |-> DisplayPrefix(m) \o JoinStr(id),
     template_path  |-> PackagePath(m),
     pipeline_root  |-> PIPELINE_ROOT,
     enable_caching |-> (m = "model_deploy"),
     state          |-> "created"]

\* aip.PipelineJob(display_name=..., template_path=..., pipeline_root=..., enable_caching=False)
PipelineJob(m, id) ==
    [display_name   |-> DisplayPrefix(m) \o JoinStr(id),
     template_path  |-> PackagePath(m),
     pipeline_root  |-> PIPELINE_ROOT,
     enable_caching |-> FALSE,
     state          |-> "created"]

\* control after a branch completes: the next if-statement, or return from main
AfterBranch(i) ==
    IF i < Len(ModeOrder) THEN [pc |-> "main", mode |-> i + 1, exitcode |-> -1]
                          ELSE [pc |-> "exit", mode |-> i, exitcode |-> 0]

\* variant: the exception is caught and main goes on with the next branch
Raised_swallowed(i) == AfterBranch(i)

\* control after an exception is raised inside branch i: nothing in main or in the
\* __main__ block catches it, so the process ends with a traceback
Raised(i) == [pc |-> "exit", mode |-> i, exitcode |-> 1]

Goto(c) == /\ pc' = c.pc
           /\ mode' = c.mode
           /\ exitcode' = c.exitcode

Event(m, step, outcome) == [mode |-> m, step |-> step, outcome |-> outcome]

Init ==
    /\ env \in SUBSET EnvUniverse
    /\ looked = {}
    /\ idx = 1
    /\ pc = "import"
    /\ exitcode = -1
    /\ args = [f \in Flags |-> FALSE]
    /\ mode = 1
    /\ files = {}
    /\ job_id = <<>>
    /\ jobs = <<>>
    /\ uuids = <<>>
    /\ log = <<>>
    /\ u_len = 0
    /\ u_rnd = <<>>
    /\ u_out = <<>>
    /\ u_pc = "idle"

\* one module-level os.environ[...] subscript; KeyError when the name is unset
Lookup ==
    /\ pc = "import"
    /\ LET name == EnvLookups[idx] IN
       IF name \in env
       THEN /\ looked' = looked \cup {name}
            /\ idx' = idx + 1
            /\ pc' = IF idx = Len(EnvLookups) THEN "argparse" ELSE "import"
            /\ exitcode' = exitcode
       ELSE /\ pc' = "exit"
            /\ exitcode' = 1
            /\ UNCHANGED <<looked, idx>>
    /\ UNCHANGED <<env, args, mode, files, job_id, jobs, uuids, log>>
    /\ UNCHANGED uuidVars

\* the __main__ block: four store_true flags, parse_args(), main(args)
ParseArgs ==
    /\ pc = "argparse"
    /\ \E a \in [Flags -> BOOLEAN] : args' = a
    /\ pc' = "main"
    /\ mode' = 1
    /\ UNCHANGED <<env, looked, idx, exitcode, files, job_id, jobs, uuids, log>>
    /\ UNCHANGED uuidVars

\* if args.<flag>:
Branch ==
    /\ pc = "main"
    /\ IF args[ModeOrder[mode]]
       THEN /\ pc' = "compile"
            /\ UNCHANGED <<mode, exitcode>>
       ELSE Goto(AfterBranch(mode))
    /\ UNCHANGED <<env, looked, idx, args, files, job_id, jobs, uuids, log>>
    /\ UNCHANGED uuidVars

\* compiler.Compiler().compile(pipeline_func, package_path=...): writes the manifest, or raises
Compile ==
    /\ pc = "compile"
    /\ LET m == ModeOrder[mode] IN
       \E ok \in BOOLEAN :
          IF ok
          THEN /\ files' = {f \in files : f[1] # PackagePath(m)}
                              \cup {<<PackagePath(m), PipelineOf(m)>>}
               /\ log' = Append(log, Event(m, "compile", "return"))
               /\ pc' = "construct"
               /\ UNCHANGED <<mode, exitcode>>
          ELSE /\ log' = Append(log, Event(m, "compile", "raise"))
               /\ Goto(Raised(mode))
               /\ UNCHANGED files
    /\ UNCHANGED <<env, looked, idx, args, job_id, jobs, uuids>>
    /\ UNCHANGED uuidVars

\* aip.init(...); job_id = generate_uuid(); DISPLAY_NAME = ...; job = aip.PipelineJob(...)
\* The constructor loads the template file and raises when it cannot.
Construct ==
    /\ pc = "construct"
    /\ LET m == ModeOrder[mode] IN
       \E rnd \in RandStreams(DefaultLength), ok \in BOOLEAN :
          LET id == generate_uuid(DefaultLength, rnd) IN
          /\ job_id' = id
          /\ uuids' = Append(uuids, id)
          /\ IF ok /\ (\E f \in files : f[1] = PackagePath(m))
             THEN /\ jobs' = Append(jobs, PipelineJob(m, id))
                  /\ log' = Append(log, Event(m, "construct", "return"))
                  /\ pc' = "run"
                  /\ UNCHANGED <<mode, exitcode>>
             ELSE /\ log' = Append(log, Event(m, "construct", "raise"))
                  /\ Goto(Raised(mode))
                  /\ UNCHANGED jobs
    /\ UNCHANGED <<env, looked, idx, args, files>>
    /\ UNCHANGED uuidVars

\* job.run(service_account=...): first the create request; it raises when the service
\* rejects it (auth, quota, network), otherwise the remote job exists and is queued
RunSubmit ==
    /\ pc = "run"
    /\ LET m == ModeOrder[mode] IN
       \E ok \in BOOLEAN :
          IF ok
          THEN /\ jobs' = [jobs EXCEPT ![Len(jobs)].state = "queued"]
               /\ log' = Append(log, Event(m, "submit", "return"))
               /\ pc' = "wait"
               /\ UNCHANGED <<mode, exitcode>>
          ELSE /\ log' = Append(log, Event(m, "submit", "raise"))
               /\ Goto(Raised(mode))
               /\ UNCHANGED jobs
    /\ UNCHANGED <<env, looked, idx, args, files, job_id, uuids>>
    /\ UNCHANGED uuidVars

\* the remote service moves a job: queued -> running -> succeeded | failed
RemoteStep ==
    /\ \E k \in 1..Len(jobs) :
          \/ /\ jobs[k].state = "queued"
             /\ jobs' = [jobs EXCEPT ![k].state = "running"]
          \/ /\ jobs[k].state = "running"
             /\ \E s \in {"succeeded", "failed"} : jobs' = [jobs EXCEPT ![k].state = s]
    /\ UNCHANGED <<env, looked, idx, pc, exitcode, args, mode, files, job_id, uuids, log>>
    /\ UNCHANGED uuidVars

\* job.run(), continued: with sync=True (the default) the call polls the remote job and
\* returns only once it has succeeded
RunReturn ==
    /\ pc = "wait"
    /\ jobs[Len(jobs)].state = "succeeded"
    /\ log' = Append(log, Event(ModeOrder[mode], "run", "return"))
    /\ Goto(AfterBranch(mode))
    /\ UNCHANGED <<env, looked, idx, args, files, job_id, jobs, uuids>>
    /\ UNCHANGED uuidVars

\* job.run(), continued: it raises RuntimeError once the remote job has failed
RunRaise ==
    /\ pc = "wait"
    /\ jobs[Len(jobs)].state = "failed"
    /\ log' = Append(log, Event(ModeOrder[mode], "run", "raise"))
    /\ Goto(Raised(mode))
    /\ UNCHANGED <<env, looked, idx, args, files, job_id, jobs, uuids>>
    /\ UNCHANGED uuidVars

Next ==
    \/ Lookup
    \/ ParseArgs
    \/ Branch
    \/ Compile
    \/ Construct
    \/ RunSubmit
    \/ RemoteStep
    \/ RunReturn
    \/ RunRaise

Spec == Init /\ [][Next]_vars

----------------------------------------------------------------------------
(* generate_uuid on its own: every length in -MaxNeg..MaxLen, every draw *)

InitUuid ==
    /\ env = EnvUniverse
    /\ looked = {}
    /\ idx = 1
    /\ pc = "import"
    /\ exitcode = -1
    /\ args = [f \in Flags |-> FALSE]
    /\ mode = 1
    /\ files = {}
    /\ job_id = <<>>
    /\ jobs = <<>>
    /\ uuids = <<>>
    /\ log = <<>>
    /\ u_len \in (0 - MaxNeg)..MaxLen
    /\ u_rnd \in [1..u_len -> 0..(Len(Alphabet) - 1)]
    /\ u_out = <<>>
    /\ u_pc = "call"

CallGenerateUuid ==
    /\ u_pc = "call"
    /\ u_out' = generate_uuid(u_len, u_rnd)
    /\ u_pc' = "done"
    /\ UNCHANGED <<u_len, u_rnd>>
    /\ UNCHANGED launcherVars

NextUuid == CallGenerateUuid

SpecUuid == InitUuid /\ [][NextUuid]_vars

----------------------------------------------------------------------------
(* Properties *)

\* position of a mode in the order data-processor, model-training, model-deploy, full-pipeline
Rank(m) ==
    CASE m = "data_processor" -> 1
      [] m = "model_training" -> 2
      [] m = "model_deploy"   -> 3
      [] m = "pipeline"       -> 4

\* manifest file expected for a mode
ManifestOf(m) ==
    CASE m = "data_processor" -> "data_processor.yaml"
      [] m = "model_training" -> "model_training.yaml"
      [] m = "model_deploy"   -> "model_deploy.yaml"
      [] m = "pipeline"       -> "pipeline.yaml"

Selected == {m \in Flags : args[m]}

\* the modes whose job.run call has begun and has neither returned nor raised
RunInProgress ==
    {m \in Flags :
        /\ \E i \in 1..Len(log) : log[i] = Event(m, "construct", "return")
        /\ ~ \E i \in 1..Len(log) :
                \/ log[i].mode = m /\ log[i].step = "run"
                \/ log[i] = Event(m, "submit", "raise")}

\* C1: the selected modes are processed one after another in the order data-processor,
\* model-training, model-deploy, full-pipeline: every step of an earlier mode precedes
\* every step of a later one, the compile and the run call of a mode have both returned
\* before the next mode's first step, only selected modes take steps, and at no time are
\* two run calls (or two remote jobs not yet terminal) in progress.
C1_SequentialInFixedOrder ==
    /\ \A i \in 1..Len(log) : log[i].mode \in Selected
    /\ \A i, j \in 1..Len(log) : i < j => Rank(log[i].mode) <= Rank(log[j].mode)
    /\ \A i, j \in 1..Len(log) :
          (i < j /\ Rank(log[i].mode) < Rank(log[j].mode)) =>
             \E c, r \in 1..(j - 1) :
                /\ c < r
                /\ log[c] = Event(log[i].mode, "compile", "return")
                /\ log[r] = Event(log[i].mode, "run", "return")
    /\ Cardinality(RunInProgress) <= 1
    /\ Cardinality({k \in 1..Len(jobs) : jobs[k].state \in {"queued", "running"}}) <= 1

\* all four flags set, every mode compiled, constructed, submitted and run to its return
C1_Witness ==
    /\ Selected = Flags
    /\ pc = "exit"
    /\ exitcode = 0
    /\ Len(log) = 16

RECURSIVE Closure(_)
Closure(R) ==
    LET S == R \cup {<<p[1][1], p[2][2]>> : p \in {x \in R \X R : x[1][2] = x[2][1]}}
    IN  IF S = R THEN R ELSE Closure(S)

Acyclic(g) == \A e \in Closure(g.edges) : e[1] # e[2]

Components(g) == [i \in 1..Len(g.tasks) |-> g.tasks[i].component]

\* C2: every manifest written holds the graph of its mode: one stage and no edge for
\* data_processor.yaml, model_training.yaml and model_deploy.yaml; three stages
\* data-processor, model-training, model-deploy for pipeline.yaml with exactly the two
\* edges data-processor -> model-training and model-training -> model-deploy, no cycle.
C2_GraphShapes ==
    \A f \in files :
       LET g == f[2] IN
       /\ f[1] = "data_processor.yaml" =>
             Components(g) = <<"data_processor">> /\ g.edges = {}
       /\ f[1] = "model_training.yaml" =>
             Components(g) = <<"model_training">> /\ g.edges = {}
       /\ f[1] = "model_deploy.yaml" =>
             Components(g) = <<"model_deploy">> /\ g.edges = {}
       /\ f[1] = "pipeline.yaml" =>
             /\ Components(g) = <<"data_processor", "model_training", "model_deploy">>
             /\ g.edges = {<<1, 2>>, <<2, 3>>}
             /\ Cardinality(g.edges) = 2
             /\ Acyclic(g)

\* only -w was given and pipeline.yaml has been written
C2_Witness ==
    /\ Selected = {"pipeline"}
    /\ \E f \in files : f[1] = "pipeline.yaml" /\ Len(f[2].tasks) = 3

\* the process has got as far as parser.parse_args()
ReachedParse ==
    \/ pc \notin {"import", "exit"}
    \/ pc = "exit" /\ (exitcode = 0 \/ log # <<>>)

\* C3 as stated: six environment variables are required, so argument parsing is reached
\* only after six variables were read from the environment.
C3_SixRequired ==
    ReachedParse => Cardinality(looked) = 6

\* C3 amended: five environment variables are required (GCP_PROJECT, GCS_BUCKET_NAME,
\* GCS_SERVICE_ACCOUNT, GCS_PACKAGE_URI, GCP_REGION); if any one of them is unset the
\* process never reaches argument parsing, compiles nothing, constructs and submits no
\* job, and ends with an uncaught error; argument parsing is reached after exactly these
\* five were read.
C3_FiveRequired ==
    /\ \A v \in {"GCP_PROJECT", "GCS_BUCKET_NAME", "GCS_SERVICE_ACCOUNT",
                 "GCS_PACKAGE_URI", "GCP_REGION"} :
          v \notin env =>
             /\ ~ReachedParse
             /\ files = {}
             /\ jobs = <<>>
             /\ log = <<>>
             /\ pc = "exit" => exitcode = 1
    /\ ReachedParse =>
          looked = {"GCP_PROJECT", "GCS_BUCKET_NAME", "GCS_SERVICE_ACCOUNT",
                    "GCS_PACKAGE_URI", "GCP_REGION"}

\* only GCP_REGION, the last variable read, is unset, and the process has aborted
C3_Witness ==
    /\ env = EnvUniverse \ {"GCP_REGION"}
    /\ pc = "exit"
    /\ exitcode = 1
    /\ Cardinality(looked) = 4

LowerAlnum ==
    {"a","b","c","d","e","f","g","h","i","j","k","l","m","n","o","p","q","r","s","t",
     "u","v","w","x","y","z","0","1","2","3","4","5","6","7","8","9"}

\* the mode a job was constructed for, read off its template
ModeOfJob(j) == CHOOSE m \in Flags : ManifestOf(m) = j.template_path

\* stage labels as C4 states them
StatedLabel(m) ==
    CASE m = "data_processor" -> "data-processor"
      [] m = "model_training" -> "model-training"
      [] m = "model_deploy"   -> "model-deploy"
      [] m = "pipeline"       -> "pipeline"

\* stage labels as the display names carry them
ActualLabel(m) ==
    CASE m = "data_processor" -> "data-processor"
      [] m = "model_training" -> "model-training"
      [] m = "model_deploy"   -> "app-model-deploy"
      [] m = "pipeline"       -> "app-pipeline"

\* the k-th job was named with the k-th generated suffix, 8 lowercase letters or digits
FreshSuffix(k) ==
    /\ k <= Len(uuids)
    /\ Len(uuids[k]) = 8
    /\ \A i \in 1..Len(uuids[k]) : uuids[k][i] \in LowerAlnum
    /\ job_id = uuids[Len(uuids)]

\* C4 as stated: every job's display name is platepals-<label>-<suffix> with label
\* data-processor, model-training, model-deploy or pipeline for its mode and a fresh
\* 8-character lowercase-alphanumeric suffix.
C4_StatedDisplayNames ==
    \A k \in 1..Len(jobs) :
       /\ FreshSuffix(k)
       /\ jobs[k].display_name =
             "platepals-" \o StatedLabel(ModeOfJob(jobs[k])) \o "-" \o JoinStr(uuids[k])

\* C4 amended: every job's display name is platepals-<label>-<suffix> with label
\* data-processor, model-training, app-model-deploy or app-pipeline for its mode and a
\* fresh 8-character lowercase-alphanumeric suffix.
C4_ActualDisplayNames ==
    \A k \in 1..Len(jobs) :
       /\ FreshSuffix(k)
       /\ jobs[k].display_name =
             "platepals-" \o ActualLabel(ModeOfJob(jobs[k])) \o "-" \o JoinStr(uuids[k])
       /\ Len(jobs[k].display_name) = Len("platepals-" \o ActualLabel(ModeOfJob(jobs[k]))) + 9

\* a job of each of the four modes has been constructed
C4_Witness ==
    /\ Len(jobs) = 4
    /\ {ModeOfJob(jobs[k]) : k \in 1..Len(jobs)} = Flags

\* C5: a step that raises is the last step of the run: it is not retried, no later mode
\* is compiled or submitted, and the process ends with a failure; no step of any mode is
\* performed twice, so each selected mode is submitted at most once, and a run that
\* ends normally contains no raised step.
C5_AbortOnFirstFailure ==
    /\ \A i \in 1..Len(log) :
          log[i].outcome = "raise" => (i = Len(log) /\ pc = "exit" /\ exitcode = 1)
    /\ \A i, j \in 1..Len(log) :
          (log[i].mode = log[j].mode /\ log[i].step = log[j].step) => i = j
    /\ \A m \in Flags :
          Cardinality({k \in 1..Len(jobs) : jobs[k].template_path = ManifestOf(m)}) <= 1
    /\ (pc = "exit" /\ exitcode = 0) => \A i \in 1..Len(log) : log[i].outcome = "return"
    /\ (pc = "exit" /\ Selected # {log[k].mode : k \in 1..Len(log)}) => exitcode = 1

\* -p and -w were given, the data-processor submission raised, and the process is over
C5_Witness ==
    /\ {"data_processor", "pipeline"} \subseteq Selected
    /\ log # <<>>
    /\ log[Len(log)] = Event("data_processor", "submit", "raise")
    /\ pc = "exit"

C7_CachingDisabled ==
    \A k \in 1..Len(jobs) : jobs[k].enable_caching = FALSE

\* the deploy job has been accepted by the service after two earlier jobs
C7_Witness ==
    /\ Len(jobs) = 3
    /\ jobs[3].template_path = "model_deploy.yaml"
    /\ jobs[3].state = "queued"

TrainingTasks(g) ==
    {g.tasks[i].arguments : i \in {n \in 1..Len(g.tasks) : g.tasks[n].component = "model_training"}}

\* C8: the training stage of model_training.yaml is invoked with epochs 3 and without
\* batch_size, model_name or train_base; the training stage of pipeline.yaml is invoked
\* with epochs 1, batch_size 32, model_name "EfficientNetV2B0" and train_base False;
\* also when both manifests are written by one invocation.
C8_TrainingHyperparameters ==
    \A f \in files :
       /\ f[1] = "model_training.yaml" =>
             /\ TrainingTasks(f[2]) # {}
             /\ \A a \in TrainingTasks(f[2]) :
                   /\ a.epochs = 3
                   /\ DOMAIN a \cap {"batch_size", "model_name", "train_base"} = {}
       /\ f[1] = "pipeline.yaml" =>
             /\ TrainingTasks(f[2]) # {}
             /\ \A a \in TrainingTasks(f[2]) :
                   /\ a.epochs = 1
                   /\ a.batch_size = 32
                   /\ a.model_name = "EfficientNetV2B0"
                   /\ a.train_base = FALSE

\* -t and -w were given and both manifests have been written
C8_Witness ==
    /\ {"model_training", "pipeline"} \subseteq Selected
    /\ {"model_training.yaml", "pipeline.yaml"} \subseteq {f[1] : f \in files}

C10_JobsFollowFlags ==
    /\ \A k \in 1..Len(jobs) :
          \E m \in Selected :
             /\ jobs[k].template_path = ManifestOf(m)
             /\ \E f \in files : f[1] = ManifestOf(m)
             /\ \E c, d \in 1..Len(log) :
                   /\ c < d
                   /\ log[c] = Event(m, "compile", "return")
                   /\ log[d] = Event(m, "construct", "return")
    /\ \A f \in files : \E m \in Selected : f[1] = ManifestOf(m)
    /\ Selected = {} =>
          /\ files = {}
          /\ jobs = <<>>
          /\ log = <<>>
          /\ pc = "exit" => (exitcode = 0 \/ ~ReachedParse)
    /\ (pc = "exit" /\ exitcode = 0) =>
          /\ Len(jobs) = Cardinality(Selected)
          /\ {jobs[k].template_path : k \in 1..Len(jobs)} = {ManifestOf(m) : m \in Selected}
          /\ \A k \in 1..Len(jobs) : jobs[k].state # "created"

\* -p and -d were given and the run ended normally with two jobs
C10_Witness ==
    /\ Selected = {"data_processor", "model_deploy"}
    /\ pc = "exit"
    /\ exitcode = 0
    /\ Len(jobs) = 2

====
